---- MODULE Spec2Model ----
(***************************************************************************)
(* A model of pgs-rs: the segment parsers, the run-length pixel decoder    *)
(* and parse_pgs (src/src/parse.rs), the display-set iterator and the      *)
(* compositor with its color conversion (src/src/render.rs), and the       *)
(* pipeline of main (src/src/main.rs).                                     *)
(*                                                                         *)
(* Indices are 0-based as in the source; a TLA+ sequence s is read at      *)
(* s[i + 1] where the source reads s[i].                                   *)
(***************************************************************************)
EXTENDS Integers, Sequences, FiniteSets, TLC

VARIABLES
    segments,       \* DisplaySetIterator.pgs.segments
    index,          \* DisplaySetIterator.index
    windows,        \* DisplaySetIterator.windows  (carried map)
    palettes,       \* DisplaySetIterator.palettes (carried map)
    objects,        \* DisplaySetIterator.objects  (carried map)
    ret,            \* what the last call of next() returned, and where it returned
    yielded,        \* the DisplaySets next() has returned so far, in order
    groups,         \* for each yielded DisplaySet, [first, last]: the indices of its segments
    display_set,    \* the argument of the last render_display_set call
    render_result,  \* what that call returned
    input,          \* the byte string handed to a parser
    output          \* what the parser returned

vars == <<segments, index, windows, palettes, objects, ret, yielded, groups,
          display_set, render_result, input, output>>

walk_vars == <<segments, index, windows, palettes, objects, ret, yielded, groups>>
render_vars == <<display_set, render_result>>
parse_vars == <<input, output>>

----------------------------------------------------------------------------
(* Bounds of the model. *)

MaxSegs == 5      \* segments of a stream
MaxWidth == 3     \* frame width of a rendered DisplaySet
MaxHeight == 2    \* its frame height
MaxPos == 1       \* position of a composition object, origin of a crop rectangle
MaxCrop == 2      \* width and height of a crop rectangle
MaxRleLen == 4    \* bytes of a run-length payload decoded on its own
MaxPayload == 2   \* bytes of the run-length payload of an object segment
MaxDim == 2       \* width and height an object segment declares

----------------------------------------------------------------------------
(* HashMap: a function with a finite domain. *)

EmptyMap == [k \in {} |-> 0]

\* HashMap::insert: the new value replaces the one the key had
Insert(m, k, v) == [x \in (DOMAIN m) \cup {k} |-> IF x = k THEN v ELSE m[x]]

\* The sequences over S of length n
SeqsOfLen(S, n) == [1..n -> S]

----------------------------------------------------------------------------
(* The data of parse.rs. *)

CompositionState == {"Normal", "AcquisitionPoint", "EpochStart"}

NoCrop == [some |-> FALSE]

CropInfo(h, v, w, ht) ==
    [some |-> TRUE, horizontal_position |-> h, vertical_position |-> v,
     width |-> w, height |-> ht]

CompositionObject(id, window_id, h, v, cropped) ==
    [id |-> id, window_id |-> window_id, horizontal_position |-> h,
     vertical_position |-> v, cropped |-> cropped]

Window(id, h, v, w, ht) ==
    [id |-> id, horizontal_position |-> h, vertical_position |-> v,
     width |-> w, height |-> ht]

PaletteEntry(id, luminance, cr, cb, alpha) ==
    [id |-> id, luminance |-> luminance, color_difference_red |-> cr,
     color_difference_blue |-> cb, alpha |-> alpha]

PaletteDefinition(id, version, entries) ==
    [id |-> id, version |-> version, entries |-> entries]

RlEncodedPixels(count, color) == [count |-> count, color |-> color]

ObjectDefinition(id, version, last_in_sequence, w, ht, data) ==
    [id |-> id, version |-> version, last_in_sequence |-> last_in_sequence,
     width |-> w, height |-> ht, data |-> data]

PresentationComposition(w, ht, frame_rate, number, state, palette_update, palette_id, objs) ==
    [tag |-> "PresentationComposition", width |-> w, height |-> ht,
     frame_rate |-> frame_rate, composition_number |-> number,
     composition_state |-> state, palette_update |-> palette_update,
     palette_id |-> palette_id, composition_objects |-> objs]

WindowDefinition(ws) == [tag |-> "WindowDefinition", windows |-> ws]

PaletteSegment(p) == [tag |-> "PaletteDefinition", palette |-> p]

ObjectSegment(o) == [tag |-> "ObjectDefinition", object |-> o]

EndSegment == [tag |-> "End"]

Segment(pts, dts, contents) == [pts |-> pts, dts |-> dts, contents |-> contents]

----------------------------------------------------------------------------
(* The segments the streams of the model are made of: three compositions,  *)
(* one per composition state, with two timestamp pairs among them; window, *)
(* palette and object definitions (the window definition holds window 1    *)
(* twice; object 2, which the first composition names, is never defined);  *)
(* a palette whose decoding timestamp alone differs; the End of either     *)
(* pair.                                                                   *)

PoolPalette ==
    PaletteDefinition(0, 0, Insert(EmptyMap, 1, PaletteEntry(1, 16, 17, 18, 255)))

PoolPaletteLate ==
    PaletteDefinition(1, 0, Insert(EmptyMap, 2, PaletteEntry(2, 32, 33, 34, 128)))

PoolObject == ObjectDefinition(1, 0, "FirstAndLast", 1, 1, <<RlEncodedPixels(1, 1)>>)

SegmentPool ==
    { Segment(0, 0, PresentationComposition(2, 1, 16, 0, "EpochStart", FALSE, 0,
                        <<CompositionObject(1, 1, 0, 0, NoCrop),
                          CompositionObject(2, 2, 1, 0, NoCrop)>>)),
      Segment(0, 0, PresentationComposition(3, 2, 32, 1, "Normal", FALSE, 0,
                        <<CompositionObject(1, 1, 0, 0, NoCrop)>>)),
      Segment(1, 1, PresentationComposition(2, 1, 16, 2, "AcquisitionPoint", TRUE, 1, <<>>)),
      Segment(0, 0, WindowDefinition(<<Window(1, 0, 0, 1, 1), Window(2, 0, 0, 2, 1),
                                       Window(1, 1, 0, 1, 1)>>)),
      Segment(0, 0, PaletteSegment(PoolPalette)),
      Segment(0, 1, PaletteSegment(PoolPaletteLate)),
      Segment(0, 0, ObjectSegment(PoolObject)),
      Segment(0, 0, EndSegment),
      Segment(1, 1, EndSegment) }

----------------------------------------------------------------------------
(* render.rs: DisplaySet and DisplaySetIterator. *)

DisplaySet_transposed(pts, dts, pc, w, p, o) ==
    [presentation_timestamp |-> pts, decoding_timestamp |-> dts,
     width |-> pc.height, height |-> pc.width, frame_rate |-> pc.frame_rate,
     composition_number |-> pc.composition_number,
     composition_state |-> pc.composition_state,
     palette_update |-> pc.palette_update, palette_id |-> pc.palette_id,
     composition_objects |-> pc.composition_objects,
     windows |-> w, palettes |-> p, objects |-> o]

DisplaySet(pts, dts, pc, w, p, o) ==
    [presentation_timestamp |-> pts, decoding_timestamp |-> dts,
     width |-> pc.width, height |-> pc.height, frame_rate |-> pc.frame_rate,
     composition_number |-> pc.composition_number,
     composition_state |-> pc.composition_state,
     palette_update |-> pc.palette_update, palette_id |-> pc.palette_id,
     composition_objects |-> pc.composition_objects,
     windows |-> w, palettes |-> p, objects |-> o]

\* DisplaySet::is_empty
is_empty(ds) == Len(ds.composition_objects) = 0

\* for window in &window_definition.windows { display_set.windows.insert(window.id, window) }
RECURSIVE insert_windows(_, _, _)
insert_windows(m, ws, i) ==
    IF i > Len(ws) THEN m ELSE insert_windows(Insert(m, ws[i].id, ws[i]), ws, i + 1)

\* The timestamp checks of the loop, on the segment it is at
timestamps_checked_pts_only(seg, pts, dts) ==
    IF seg.pts # pts THEN "pts_mismatch" ELSE "ok"

timestamps_checked(seg, pts, dts) ==
    IF seg.pts # pts THEN "pts_mismatch"
    ELSE IF seg.dts # dts THEN "dts_mismatch"
    ELSE "ok"

\* The match on the segment's contents: the definitions go into the
\* DisplaySet's own maps, an End leaves the loop, a composition panics
contents_matched_composition_skipped(ds, c) ==
    CASE c.tag = "WindowDefinition" ->
            [at |-> "continue", ds |-> [ds EXCEPT !.windows = insert_windows(@, c.windows, 1)]]
      [] c.tag = "PaletteDefinition" ->
            [at |-> "continue", ds |-> [ds EXCEPT !.palettes = Insert(@, c.palette.id, c.palette)]]
      [] c.tag = "ObjectDefinition" ->
            [at |-> "continue", ds |-> [ds EXCEPT !.objects = Insert(@, c.object.id, c.object)]]
      [] c.tag = "End" -> [at |-> "end", ds |-> ds]
      [] OTHER -> [at |-> "continue", ds |-> ds]

contents_matched(ds, c) ==
    CASE c.tag = "PresentationComposition" -> [at |-> "composition_in_group", ds |-> ds]
      [] c.tag = "WindowDefinition" ->
            [at |-> "continue", ds |-> [ds EXCEPT !.windows = insert_windows(@, c.windows, 1)]]
      [] c.tag = "PaletteDefinition" ->
            [at |-> "continue", ds |-> [ds EXCEPT !.palettes = Insert(@, c.palette.id, c.palette)]]
      [] c.tag = "ObjectDefinition" ->
            [at |-> "continue", ds |-> [ds EXCEPT !.objects = Insert(@, c.object.id, c.object)]]
      [] c.tag = "End" -> [at |-> "end", ds |-> ds]

\* The index stays at the segment the loop stopped at, an End included
left_at_the_segment(at, idx) == idx

\* SegmentContents::End => { self.index += 1; return Some(display_set) }: the
\* index is left past the End; a panic leaves it at the segment it stopped at
left_at(at, idx) == IF at = "end" THEN idx + 1 ELSE idx

\* The loop of next(): from segment idx on, with ds the DisplaySet in
\* progress.  The result names the place the loop leaves next() at, and the
\* index it leaves: past the End, or at the segment it stopped at.
RECURSIVE accumulate(_, _, _, _, _)
accumulate(segs, ds, idx, pts, dts) ==
    IF idx >= Len(segs)
    THEN [at |-> "eof_in_group", index |-> idx, ds |-> ds]
    ELSE LET seg == segs[idx + 1]
             checked == timestamps_checked(seg, pts, dts)
             matched == contents_matched(ds, seg.contents)
         IN  IF checked # "ok"
             THEN [at |-> checked, index |-> idx, ds |-> ds]
             ELSE IF matched.at = "continue"
             THEN accumulate(segs, matched.ds, idx + 1, pts, dts)
             ELSE [at |-> matched.at, index |-> left_at(matched.at, idx), ds |-> matched.ds]

\* What next() hands back when it leaves at the place `at`: the three panics
\* abort the walk, the end of a group yields, every other place returns None.
Returned(at) ==
    CASE at \in {"pts_mismatch", "dts_mismatch", "composition_in_group"} -> "panic"
      [] at = "end" -> "Some"
      [] OTHER -> "None"

\* DisplaySetIterator::new
new(pgs) ==
    /\ segments = pgs
    /\ index = 0
    /\ windows = EmptyMap
    /\ palettes = EmptyMap
    /\ objects = EmptyMap

\* Some(display_set) with the maps of the DisplaySets returned before shared
\* with the one returned now
returned_sharing_maps(before, ds) ==
    Append([i \in DOMAIN before |->
               [before[i] EXCEPT !.windows = ds.windows, !.palettes = ds.palettes,
                                 !.objects = ds.objects]],
           ds)

\* return Some(display_set): the DisplaySet, which owns clones of the maps, is
\* moved to the caller, who holds the ones returned before
returned(before, ds) == Append(before, ds)

\* The segment at start_index is passed over before None is returned
not_a_composition_passed_over(start_index) == start_index + 1

\* _ => return None, before self.index += 1: the index the call leaves is
\* the one it found, that of the segment which is not a composition
not_a_composition(start_index) == start_index

\* Iterator::next
next ==
    /\ ret.kind # "panic"
    /\ IF index >= Len(segments)
       THEN /\ ret' = [kind |-> Returned("exhausted"), at |-> "exhausted"]
            /\ UNCHANGED <<index, windows, palettes, objects, yielded, groups>>
       ELSE LET start_index == index
                seg == segments[start_index + 1]
            IN  IF seg.contents.tag # "PresentationComposition"
                THEN /\ ret' = [kind |-> Returned("not_composition"), at |-> "not_composition"]
                     /\ index' = not_a_composition(start_index)
                     /\ UNCHANGED <<windows, palettes, objects, yielded, groups>>
                ELSE LET pc == seg.contents
                         epoch == pc.composition_state = "EpochStart"
                         w == IF epoch THEN EmptyMap ELSE windows
                         p == IF epoch THEN EmptyMap ELSE palettes
                         o == IF epoch THEN EmptyMap ELSE objects
                         r == accumulate(segments, DisplaySet(seg.pts, seg.dts, pc, w, p, o),
                                         start_index + 1, seg.pts, seg.dts)
                     IN  /\ windows' = w
                         /\ palettes' = p
                         /\ objects' = o
                         /\ index' = r.index
                         /\ ret' = [kind |-> Returned(r.at), at |-> r.at]
                         /\ yielded' = IF r.at = "end" THEN returned(yielded, r.ds) ELSE yielded
                         /\ groups' = IF r.at = "end"
                                      THEN Append(groups, [first |-> start_index,
                                                           last |-> r.index - 1])
                                      ELSE groups
    /\ UNCHANGED <<segments, render_vars, parse_vars>>

----------------------------------------------------------------------------
(* render.rs: the compositor.  A buffer is a sequence of bytes, buf[i] of  *)
(* the source being buf[i + 1].  An operation that can abort (an index out *)
(* of bounds, a remainder or a division by zero) returns a record whose    *)
(* panic field says so.                                                    *)

PIXEL_SIZE == 4

\* is_cropped_1: width and height are the crop rectangle's, pixel_offset is
\* the cursor's byte offset in the frame buffer
is_cropped_1(pixel_offset, top_left_x, top_left_y, width, height) ==
    IF width = 0
    THEN [panic |-> TRUE, value |-> FALSE]
    ELSE LET x == (pixel_offset \div PIXEL_SIZE) % width
             y == (pixel_offset \div PIXEL_SIZE) \div width
         IN  [panic |-> FALSE,
              value |-> \/ x < top_left_x
                        \/ x >= top_left_x + width
                        \/ y < top_left_y
                        \/ y >= top_left_y + height]

\* is_cropped
is_cropped(pixel_offset, object) ==
    IF object.cropped.some
    THEN is_cropped_1(pixel_offset, object.cropped.horizontal_position,
                      object.cropped.vertical_position, object.cropped.width,
                      object.cropped.height)
    ELSE [panic |-> FALSE, value |-> FALSE]

\* move_one_pixel_forward: width is the frame's.  x < width, so the branch is
\* taken only when object_width < width and the subtraction cannot wrap.
move_one_pixel_forward(pixel_offset, width, horizontal_position, object_width) ==
    IF width = 0
    THEN [panic |-> TRUE, value |-> pixel_offset + PIXEL_SIZE]
    ELSE LET moved == pixel_offset + PIXEL_SIZE
             x == (moved \div PIXEL_SIZE) % width
         IN  [panic |-> FALSE,
              value |-> IF x = horizontal_position + object_width
                        THEN moved + (width - object_width) * PIXEL_SIZE
                        ELSE moved]

\* buf[pixel_offset] .. buf[pixel_offset + 3] = alpha, luminance, blue, red
write_pixel(buf, pixel_offset, pixel_color) ==
    [i \in 1..Len(buf) |->
        CASE i = pixel_offset + 1 -> pixel_color.alpha
          [] i = pixel_offset + 2 -> pixel_color.luminance
          [] i = pixel_offset + 3 -> pixel_color.color_difference_blue
          [] i = pixel_offset + 4 -> pixel_color.color_difference_red
          [] OTHER -> buf[i]]

Painting(buf, pixel_offset) ==
    [kind |-> "Painting", buf |-> buf, pixel_offset |-> pixel_offset]

Panic(why) == [kind |-> "Panic", why |-> why]

\* for _ in 0..pixel.count { ... }: n pixels are left to paint
RECURSIVE paint_pixels(_, _, _, _, _, _)
paint_pixels(st, n, pixel_color, composition_object, object, width) ==
    IF n = 0 \/ st.kind # "Painting"
    THEN st
    ELSE LET cropped == is_cropped(st.pixel_offset, composition_object)
             moved == move_one_pixel_forward(st.pixel_offset, width,
                          composition_object.horizontal_position, object.width)
         IN  IF cropped.panic
             THEN Panic("remainder with a divisor of zero")
             ELSE IF ~cropped.value /\ st.pixel_offset + 3 >= Len(st.buf)
             THEN Panic("index out of bounds")
             ELSE IF moved.panic
             THEN Panic("remainder with a divisor of zero")
             ELSE paint_pixels(
                      Painting(IF cropped.value THEN st.buf
                               ELSE write_pixel(st.buf, st.pixel_offset, pixel_color),
                               moved.value),
                      n - 1, pixel_color, composition_object, object, width)

\* The lookup of a run's color in the palette the composition names
find_pixel_color_by_palette_id(ds, pixel) ==
    IF ds.palette_id \in DOMAIN ds.palettes
       /\ pixel.color \in DOMAIN ds.palettes[ds.palette_id].entries
    THEN [found |-> TRUE, pixel_color |-> ds.palettes[ds.palette_id].entries[pixel.color]]
    ELSE [found |-> FALSE]

\* display_set.palettes.get(&0).and_then(|palette| palette.entries.get(&pixel.color))
find_pixel_color(ds, pixel) ==
    IF 0 \in DOMAIN ds.palettes /\ pixel.color \in DOMAIN ds.palettes[0].entries
    THEN [found |-> TRUE, pixel_color |-> ds.palettes[0].entries[pixel.color]]
    ELSE [found |-> FALSE]

\* One run: its color is looked up, then its pixels are painted
paint_run(st, looked_up, pixel, composition_object, object, width) ==
    IF ~looked_up.found
    THEN [kind |-> "PaletteNotFound", palette_id |-> 0, entry_id |-> pixel.color]
    ELSE paint_pixels(st, pixel.count, looked_up.pixel_color, composition_object, object,
                      width)

\* for pixel in object.data.0.iter() { ... }: from run i on
RECURSIVE paint_runs(_, _, _, _, _)
paint_runs(st, i, ds, composition_object, object) ==
    IF i > Len(object.data) \/ st.kind # "Painting"
    THEN st
    ELSE paint_runs(paint_run(st, find_pixel_color(ds, object.data[i]), object.data[i],
                              composition_object, object, ds.width),
                    i + 1, ds, composition_object, object)

\* display_set.objects.get(&composition_object.id)
find_object_or_default(ds, composition_object) ==
    IF composition_object.id \in DOMAIN ds.objects
    THEN [found |-> TRUE, object |-> ds.objects[composition_object.id]]
    ELSE [found |-> TRUE,
          object |-> ObjectDefinition(composition_object.id, 0, "FirstAndLast", 0, 0, <<>>)]

find_object(ds, composition_object) ==
    IF composition_object.id \in DOMAIN ds.objects
    THEN [found |-> TRUE, object |-> ds.objects[composition_object.id]]
    ELSE [found |-> FALSE]

\* for composition_object in display_set.composition_objects { ... }: from object i on
RECURSIVE paint_objects(_, _, _)
paint_objects(st, i, ds) ==
    IF i > Len(ds.composition_objects) \/ st.kind # "Painting"
    THEN st
    ELSE LET composition_object == ds.composition_objects[i]
             looked_up == find_object(ds, composition_object)
             x == composition_object.horizontal_position
             y == composition_object.vertical_position
         IN  IF ~looked_up.found
             THEN [kind |-> "ObjectNotFound", object_id |-> composition_object.id]
             ELSE paint_objects(
                      paint_runs(Painting(st.buf, (y * ds.width + x) * PIXEL_SIZE), 1, ds,
                                 composition_object, looked_up.object),
                      i + 1, ds)

\* YuvPackedImage::check_constraints444 (the yuv crate), on an image whose
\* buffer is stride * height bytes and whose stride is width * 4: it
\* refuses an image without pixels
check_constraints444(width, height) == width # 0 /\ height # 0

\* A color channel: the 13-bit fixed-point sum rounded, shifted and clamped
\* to a byte
channel(sum) ==
    LET shifted == (sum + 4096) \div 8192
    IN  IF shifted < 0 THEN 0 ELSE IF shifted > 255 THEN 255 ELSE shifted

\* One pixel of yuv::ayuv_to_rgba with YuvRange::Full, YuvStandardMatrix::
\* Bt709 and no premultiplication: red, green, blue, alpha from alpha,
\* luminance, blue difference, red difference.  The coefficients are those
\* of BT.709 (Kr = 0.2126, Kb = 0.0722) times 2^13.
ayuv_pixel(a, y, u, v) ==
    << channel(y * 8192 + 12901 * (v - 128)),
       channel(y * 8192 - 3835 * (v - 128) - 1535 * (u - 128)),
       channel(y * 8192 + 15201 * (u - 128)),
       a >>

\* yuv::ayuv_to_rgba on the packed buffer
ayuv_to_rgba(buf) ==
    [i \in 1..Len(buf) |->
        LET p == ((i - 1) \div PIXEL_SIZE) * PIXEL_SIZE
        IN  ayuv_pixel(buf[p + 1], buf[p + 2], buf[p + 3], buf[p + 4])[((i - 1) % PIXEL_SIZE) + 1]]

\* The end of render_display_set, once every object is painted: the image is
\* checked and converted.  Ok carries the converted buffer, and with it the
\* packed buffer (alpha, luminance, blue, red per pixel) it was made from.
convert_painted(st, ds) ==
    IF st.kind # "Painting" THEN st
    ELSE IF ~check_constraints444(ds.width, ds.height) THEN [kind |-> "YuvError"]
    ELSE [kind |-> "Ok", packed |-> st.buf, rgba |-> ayuv_to_rgba(st.buf)]

\* render_display_set; the text of the DisplaySet that the errors carry is
\* left out
render_display_set(ds) ==
    LET stride == ds.width * PIXEL_SIZE
        buf == [i \in 1..(stride * ds.height) |-> 0]
    IN  convert_painted(paint_objects(Painting(buf, 0), 1, ds), ds)

\* A call of render_display_set
render(ds) ==
    /\ display_set' = ds
    /\ render_result' = render_display_set(ds)
    /\ UNCHANGED <<walk_vars, parse_vars>>

\* main's loop renders the DisplaySets the iterator yields
render_yielded ==
    /\ ret.kind # "panic"
    /\ \E i \in DOMAIN yielded : render(yielded[i])

NotRendered == [kind |-> "NotRendered"]
NotParsed == [kind |-> "NotParsed"]

Init ==
    /\ \E n \in 0..MaxSegs : \E pgs \in SeqsOfLen(SegmentPool, n) : new(pgs)
    /\ ret = [kind |-> "start", at |-> "new"]
    /\ yielded = <<>>
    /\ groups = <<>>
    /\ display_set = NotRendered
    /\ render_result = NotRendered
    /\ input = <<>>
    /\ output = NotParsed

Next ==
    \/ next
    \/ render_yielded

Spec == Init /\ [][Next]_vars

----------------------------------------------------------------------------
(* The DisplaySets handed to render_display_set on their own: every frame  *)
(* size, no composition object or one, placed at every position with every *)
(* crop rectangle or none, of an object whose runs cover it one pixel each *)
(* in alternating colors, or by scanlines with an end-of-line marker, or   *)
(* do not total its size, or use a color the palette lacks.                *)

RenderPalette ==
    PaletteDefinition(0, 0,
        [c \in 0..2 |-> PaletteEntry(c, 16 + c, 32 + c, 48 + c, 255 - c)])

\* w * h runs of one pixel each, of color 1 and 2 in turn
PixelRuns(w, h) == [k \in 1..(w * h) |-> RlEncodedPixels(1, 1 + (k % 2))]

RenderObjects ==
    {ObjectDefinition(1, 0, "FirstAndLast", w, h, PixelRuns(w, h)) : w \in 1..2, h \in 1..2}
    \cup
    { ObjectDefinition(1, 0, "FirstAndLast", 2, 2,
          <<RlEncodedPixels(2, 1), RlEncodedPixels(0, 0), RlEncodedPixels(2, 2),
            RlEncodedPixels(0, 0)>>),
      ObjectDefinition(1, 0, "FirstAndLast", 2, 1, <<RlEncodedPixels(3, 1)>>),
      ObjectDefinition(1, 0, "FirstAndLast", 1, 1, <<RlEncodedPixels(1, 3)>>) }

RenderCrops(pos, size) ==
    {NoCrop} \cup
    {CropInfo(h, v, w, ht) : h \in 0..pos, v \in 0..pos, w \in 0..size, ht \in 0..size}

RenderCompositionObjects(pos, size) ==
    {<<>>} \cup
    {<<CompositionObject(1, 1, h, v, crop)>> :
        h \in 0..pos, v \in 0..pos, crop \in RenderCrops(pos, size)}

\* The palette id a composition names and the palettes of its DisplaySet:
\* no palette; palette 0; palette 1 alone, named; palette 0 without color 0
\* while the composition names palette 1
RenderPalettes ==
    { [palette_id |-> 0, palettes |-> EmptyMap],
      [palette_id |-> 0, palettes |-> Insert(EmptyMap, 0, RenderPalette)],
      [palette_id |-> 1,
       palettes |-> Insert(EmptyMap, 1, PaletteDefinition(1, 0, RenderPalette.entries))],
      [palette_id |-> 1,
       palettes |-> Insert(EmptyMap, 0,
                        PaletteDefinition(0, 0, [c \in 1..2 |-> RenderPalette.entries[c]]))] }

RenderDisplaySet(w, h, cos, pals, obj) ==
    DisplaySet(0, 0,
               PresentationComposition(w, h, 16, 0, "EpochStart", FALSE, pals.palette_id, cos),
               EmptyMap, pals.palettes, Insert(EmptyMap, 1, obj))

InitRender ==
    /\ new(<<>>)
    /\ ret = [kind |-> "start", at |-> "new"]
    /\ yielded = <<>>
    /\ groups = <<>>
    /\ \E w \in 0..MaxWidth, h \in 0..MaxHeight,
          cos \in RenderCompositionObjects(MaxPos, MaxCrop),
          pals \in RenderPalettes, obj \in RenderObjects :
            display_set = RenderDisplaySet(w, h, cos, pals, obj)
    /\ render_result = NotRendered
    /\ input = <<>>
    /\ output = NotParsed

\* render_display_set called on the DisplaySet given
render_given ==
    /\ render_result = NotRendered
    /\ render(display_set)

NextRender == render_given

SpecRender == InitRender /\ [][NextRender]_vars

----------------------------------------------------------------------------
(* parse.rs: the parsers, on a sequence of bytes.  A parser returns        *)
(* Ok(value, rest), rest being the input it left, or Err.                  *)

Ok(v, rest) == [ok |-> TRUE, value |-> v, rest |-> rest]
Err == [ok |-> FALSE]

\* winnow::binary: big-endian integers
be_u8(i) == IF Len(i) >= 1 THEN Ok(i[1], SubSeq(i, 2, Len(i))) ELSE Err
be_u16(i) == IF Len(i) >= 2 THEN Ok(i[1] * 256 + i[2], SubSeq(i, 3, Len(i))) ELSE Err
be_u24(i) ==
    IF Len(i) >= 3 THEN Ok((i[1] * 256 + i[2]) * 256 + i[3], SubSeq(i, 4, Len(i))) ELSE Err

\* winnow's length_take: the n bytes a length prefix announces
take(i, n) == IF Len(i) >= n THEN Ok(SubSeq(i, 1, n), SubSeq(i, n + 1, Len(i))) ELSE Err

\* v >> 6 and v & 0x3F of a byte
top_bits(v) == v \div 64
low_bits(v) == v % 64

\* The alternatives of parse_single_encoded_pixel, in the order alt tries
\* them; each reads its bytes, then verifies.
single_pixel(i) ==
    IF Len(i) >= 1 /\ i[1] # 0 THEN Ok(RlEncodedPixels(1, i[1]), SubSeq(i, 2, Len(i))) ELSE Err

run_of_base_color(i) ==
    IF Len(i) >= 2 /\ top_bits(i[2]) = 0
    THEN Ok(RlEncodedPixels(low_bits(i[2]), 0), SubSeq(i, 3, Len(i)))
    ELSE Err

long_run_of_base_color_low_byte_only(i) ==
    IF Len(i) >= 3 /\ top_bits(i[2]) = 1
    THEN Ok(RlEncodedPixels(i[3], 0), SubSeq(i, 4, Len(i)))
    ELSE Err

long_run_of_base_color(i) ==
    IF Len(i) >= 3 /\ top_bits(i[2]) = 1
    THEN Ok(RlEncodedPixels(low_bits(i[2]) * 256 + i[3], 0), SubSeq(i, 4, Len(i)))
    ELSE Err

run_of_other_color(i) ==
    IF Len(i) >= 3 /\ top_bits(i[2]) = 2
    THEN Ok(RlEncodedPixels(low_bits(i[2]), i[3]), SubSeq(i, 4, Len(i)))
    ELSE Err

long_run_of_other_color(i) ==
    IF Len(i) >= 4 /\ top_bits(i[2]) = 3
    THEN Ok(RlEncodedPixels(low_bits(i[2]) * 256 + i[3], i[4]), SubSeq(i, 5, Len(i)))
    ELSE Err

zero_marker(i) ==
    IF Len(i) >= 2 /\ i[1] * 256 + i[2] = 0
    THEN Ok(RlEncodedPixels(0, 0), SubSeq(i, 3, Len(i)))
    ELSE Err

\* alt: the first alternative that succeeds
RECURSIVE first_ok(_)
first_ok(results) ==
    IF results = <<>> THEN Err
    ELSE IF results[1].ok THEN results[1]
    ELSE first_ok(Tail(results))

parse_single_encoded_pixel(i) ==
    first_ok(<<single_pixel(i), run_of_base_color(i), long_run_of_base_color(i),
               run_of_other_color(i), long_run_of_other_color(i), zero_marker(i)>>)

\* repeat(0.., parse_single_encoded_pixel): runs are taken until one fails
\* to parse; the input is left where that one started.  It never fails.
RECURSIVE repeat_single_encoded_pixel(_, _)
repeat_single_encoded_pixel(acc, i) ==
    LET r == parse_single_encoded_pixel(i)
    IN  IF r.ok THEN repeat_single_encoded_pixel(Append(acc, r.value), r.rest)
        ELSE Ok(acc, i)

parse_run_length_encoded_pixels(i) == repeat_single_encoded_pixel(<<>>, i)

parse_last_in_sequence(i) ==
    IF Len(i) >= 1 /\ i[1] = 64 THEN Ok("Last", SubSeq(i, 2, Len(i)))
    ELSE IF Len(i) >= 1 /\ i[1] = 128 THEN Ok("First", SubSeq(i, 2, Len(i)))
    ELSE IF Len(i) >= 1 /\ i[1] = 192 THEN Ok("FirstAndLast", SubSeq(i, 2, Len(i)))
    ELSE Err

\* length_and_then(be_u24, (be_u16, be_u16, parse_run_length_encoded_pixels)):
\* the three parsers run on the bytes the 3-byte length announces; what they
\* leave of those bytes is dropped
parse_object_data(i) ==
    LET length == be_u24(i)
        data == IF length.ok THEN take(length.rest, length.value) ELSE Err
        width == IF data.ok THEN be_u16(data.value) ELSE Err
        height == IF width.ok THEN be_u16(width.rest) ELSE Err
        pixels == IF height.ok THEN parse_run_length_encoded_pixels(height.rest) ELSE Err
    IN  IF pixels.ok
        THEN Ok([width |-> width.value, height |-> height.value, data |-> pixels.value],
                data.rest)
        ELSE Err

\* parse_object_definition_segment: the payload of a segment of tag 0x15
parse_object_definition_segment(i) ==
    LET length == be_u16(i)
        data == IF length.ok THEN take(length.rest, length.value) ELSE Err
        id == IF data.ok THEN be_u16(data.value) ELSE Err
        version == IF id.ok THEN be_u8(id.rest) ELSE Err
        last_in_sequence == IF version.ok THEN parse_last_in_sequence(version.rest) ELSE Err
        object_data == IF last_in_sequence.ok THEN parse_object_data(last_in_sequence.rest)
                       ELSE Err
    IN  IF object_data.ok
        THEN Ok(ObjectDefinition(id.value, version.value, last_in_sequence.value,
                                 object_data.value.width, object_data.value.height,
                                 object_data.value.data),
                data.rest)
        ELSE Err

----------------------------------------------------------------------------
(* The parsers' inputs.  The bytes of a run-length payload are drawn from  *)
(* one value for each top-bit pattern of a run's second byte, zero, and    *)
(* small and large other bytes.                                            *)

PayloadBytes == {0, 5, 10, 63, 69, 133, 197, 255}

InitParse(bytes) ==
    /\ new(<<>>)
    /\ ret = [kind |-> "start", at |-> "new"]
    /\ yielded = <<>>
    /\ groups = <<>>
    /\ display_set = NotRendered
    /\ render_result = NotRendered
    /\ input = bytes
    /\ output = NotParsed

\* A call of parse_run_length_encoded_pixels on the payload
decode_pixels ==
    /\ output = NotParsed
    /\ output' = parse_run_length_encoded_pixels(input)
    /\ UNCHANGED <<input, walk_vars, render_vars>>

InitRle == \E n \in 0..MaxRleLen : \E bytes \in SeqsOfLen(PayloadBytes, n) : InitParse(bytes)

NextRle == decode_pixels

SpecRle == InitRle /\ [][NextRle]_vars

\* The bytes of an object segment's payload: the outer length, id, version,
\* sequence flag, the inner length, width, height and the pixel bytes; the
\* lengths are the right ones or off by one, the flag is a valid one or not.
u16_bytes(v) == <<v \div 256, v % 256>>
u24_bytes(v) == <<v \div 65536, (v \div 256) % 256, v % 256>>

ObjectPayload(outer, flag, inner, w, h, pixels) ==
    u16_bytes(outer) \o u16_bytes(1) \o <<0>> \o <<flag>> \o u24_bytes(inner)
        \o u16_bytes(w) \o u16_bytes(h) \o pixels

\* A call of parse_object_definition_segment on the payload
parse_object ==
    /\ output = NotParsed
    /\ output' = parse_object_definition_segment(input)
    /\ UNCHANGED <<input, walk_vars, render_vars>>

InitObject ==
    \E n \in 0..MaxPayload : \E pixels \in SeqsOfLen(PayloadBytes, n) :
    \E d \in {-1, 0, 1}, e \in {-1, 0, 1}, flag \in {0, 64, 128, 192},
       w \in 0..MaxDim, h \in 0..MaxDim :
        InitParse(ObjectPayload(11 + n + d, flag, 4 + n + e, w, h, pixels))

NextObject == parse_object

SpecObject == InitObject /\ [][NextObject]_vars

----------------------------------------------------------------------------
(* parse.rs: the parsers of the other payloads, and of whole segments.     *)

be_u32(i) ==
    IF Len(i) >= 4
    THEN Ok(((i[1] * 256 + i[2]) * 256 + i[3]) * 256 + i[4], SubSeq(i, 5, Len(i)))
    ELSE Err

\* parse_palette_entry with the blue difference read before the red one
parse_palette_entry_blue_first(i) ==
    IF Len(i) >= 5
    THEN Ok(PaletteEntry(i[1], i[2], i[4], i[3], i[5]), SubSeq(i, 6, Len(i)))
    ELSE Err

\* parse_palette_entry: five bytes, PaletteEntry::from_tuple takes them in
\* the order of the struct's fields: id, luminance, color_difference_red,
\* color_difference_blue, alpha
parse_palette_entry(i) ==
    IF Len(i) >= 5
    THEN Ok(PaletteEntry(i[1], i[2], i[3], i[4], i[5]), SubSeq(i, 6, Len(i)))
    ELSE Err

\* repeat(0.., parse_palette_entry): entries are taken until one fails to
\* parse; the input is left where that one started.  It never fails.
RECURSIVE repeat_palette_entry(_, _)
repeat_palette_entry(acc, i) ==
    LET r == parse_palette_entry(i)
    IN  IF r.ok THEN repeat_palette_entry(Append(acc, r.value), r.rest)
        ELSE Ok(acc, i)

\* for entry in entries { palette.insert(entry.id, entry) }, keeping the
\* entry an id already has
RECURSIVE insert_entries_first_wins(_, _)
insert_entries_first_wins(palette, entries) ==
    IF entries = <<>> THEN palette
    ELSE insert_entries_first_wins(
             IF entries[1].id \in DOMAIN palette THEN palette
             ELSE Insert(palette, entries[1].id, entries[1]),
             Tail(entries))

\* for entry in entries { palette.insert(entry.id, entry) }
RECURSIVE insert_entries(_, _)
insert_entries(palette, entries) ==
    IF entries = <<>> THEN palette
    ELSE insert_entries(Insert(palette, entries[1].id, entries[1]), Tail(entries))

parse_palette_entries(i) ==
    LET entries == repeat_palette_entry(<<>>, i)
    IN  Ok(insert_entries(EmptyMap, entries.value), entries.rest)

\* parse_palette_definition_segment: the payload of a segment of tag 0x14.
\* length_and_then runs the parsers on the bytes the length announces and
\* drops what they leave of those bytes.
parse_palette_definition_segment(i) ==
    LET length == be_u16(i)
        data == IF length.ok THEN take(length.rest, length.value) ELSE Err
        id == IF data.ok THEN be_u8(data.value) ELSE Err
        version == IF id.ok THEN be_u8(id.rest) ELSE Err
        entries == IF version.ok THEN parse_palette_entries(version.rest) ELSE Err
    IN  IF entries.ok
        THEN Ok(PaletteDefinition(id.value, version.value, entries.value), data.rest)
        ELSE Err

\* parse_window: nine bytes
parse_window(i) ==
    IF Len(i) >= 9
    THEN Ok(Window(i[1], i[2] * 256 + i[3], i[4] * 256 + i[5], i[6] * 256 + i[7],
                   i[8] * 256 + i[9]),
            SubSeq(i, 10, Len(i)))
    ELSE Err

\* length_repeat(be_u8, parse_window): n windows are still to be read
RECURSIVE repeat_window(_, _, _)
repeat_window(n, acc, i) ==
    IF n = 0 THEN Ok(acc, i)
    ELSE LET r == parse_window(i)
         IN  IF r.ok THEN repeat_window(n - 1, Append(acc, r.value), r.rest) ELSE Err

\* parse_window_definition_segment: the payload of a segment of tag 0x17
parse_window_definition_segment(i) ==
    LET length == be_u16(i)
        data == IF length.ok THEN take(length.rest, length.value) ELSE Err
        count == IF data.ok THEN be_u8(data.value) ELSE Err
        ws == IF count.ok THEN repeat_window(count.value, <<>>, count.rest) ELSE Err
    IN  IF ws.ok THEN Ok(WindowDefinition(ws.value), data.rest) ELSE Err

parse_composition_state(i) ==
    IF Len(i) >= 1 /\ i[1] = 0 THEN Ok("Normal", SubSeq(i, 2, Len(i)))
    ELSE IF Len(i) >= 1 /\ i[1] = 64 THEN Ok("AcquisitionPoint", SubSeq(i, 2, Len(i)))
    ELSE IF Len(i) >= 1 /\ i[1] = 128 THEN Ok("EpochStart", SubSeq(i, 2, Len(i)))
    ELSE Err

parse_palette_update_flag(i) ==
    IF Len(i) >= 1 /\ i[1] = 0 THEN Ok(FALSE, SubSeq(i, 2, Len(i)))
    ELSE IF Len(i) >= 1 /\ i[1] = 128 THEN Ok(TRUE, SubSeq(i, 2, Len(i)))
    ELSE Err

\* parse_object_cropped_flag: any byte is a flag, 0x40 alone says cropped
parse_object_cropped_flag(i) ==
    IF Len(i) >= 1 THEN Ok(i[1] = 64, SubSeq(i, 2, Len(i))) ELSE Err

\* parse_composition_object: id, window_id, the cropped flag, the position
\* (eight bytes), and the crop rectangle (eight more) when the flag says so
parse_composition_object(i) ==
    IF Len(i) < 8 THEN Err
    ELSE IF ~parse_object_cropped_flag(SubSeq(i, 4, 4)).value
    THEN Ok(CompositionObject(i[1] * 256 + i[2], i[3], i[5] * 256 + i[6],
                              i[7] * 256 + i[8], NoCrop),
            SubSeq(i, 9, Len(i)))
    ELSE IF Len(i) < 16 THEN Err
    ELSE Ok(CompositionObject(i[1] * 256 + i[2], i[3], i[5] * 256 + i[6],
                              i[7] * 256 + i[8],
                              CropInfo(i[9] * 256 + i[10], i[11] * 256 + i[12],
                                       i[13] * 256 + i[14], i[15] * 256 + i[16])),
            SubSeq(i, 17, Len(i)))

\* length_repeat(be_u8, parse_composition_object): n objects are still to be read
RECURSIVE repeat_composition_object(_, _, _)
repeat_composition_object(n, acc, i) ==
    IF n = 0 THEN Ok(acc, i)
    ELSE LET r == parse_composition_object(i)
         IN  IF r.ok THEN repeat_composition_object(n - 1, Append(acc, r.value), r.rest)
             ELSE Err

\* The tuple of parse_presentation_composition_segment, on the bytes its
\* length announces: width, height, frame rate, composition number (seven
\* bytes), the state, the palette update flag, the palette id, the objects
parse_presentation_composition(d) ==
    LET state == parse_composition_state(SubSeq(d, 8, 8))
        palette_update == parse_palette_update_flag(SubSeq(d, 9, 9))
        objs == repeat_composition_object(d[11], <<>>, SubSeq(d, 12, Len(d)))
    IN  IF Len(d) < 11 \/ ~state.ok \/ ~palette_update.ok \/ ~objs.ok THEN Err
        ELSE Ok(PresentationComposition(d[1] * 256 + d[2], d[3] * 256 + d[4], d[5],
                    d[6] * 256 + d[7], state.value, palette_update.value, d[10],
                    objs.value),
                objs.rest)

\* parse_presentation_composition_segment: the payload of a segment of tag
\* 0x16.  What the tuple leaves of the announced bytes is dropped.
parse_presentation_composition_segment(i) ==
    LET length == be_u16(i)
        data == IF length.ok THEN take(length.rest, length.value) ELSE Err
        fields == IF data.ok THEN parse_presentation_composition(data.value) ELSE Err
    IN  IF fields.ok THEN Ok(fields.value, data.rest) ELSE Err

\* parse_end_of_display_set_segment: the literal 0x0000
parse_end_of_display_set_segment(i) ==
    IF Len(i) >= 2 /\ i[1] * 256 + i[2] = 0 THEN Ok(<<>>, SubSeq(i, 3, Len(i))) ELSE Err

\* A failed parser of a whole segment: rest is the input where it stopped
Fail(rest) == [ok |-> FALSE, rest |-> rest]

\* Where a failed payload parser leaves the segment's input: fail, for an
\* unknown tag, takes nothing; an End's verify puts the input back;
\* length_and_then has taken the length, and the bytes it announces when
\* there are that many, before the inner parsers run
left_by_payload(tag, i) ==
    LET length == be_u16(i)
        data == IF length.ok THEN take(length.rest, length.value) ELSE Err
    IN  IF tag \notin {20, 21, 22, 23} \/ ~length.ok THEN i
        ELSE IF ~data.ok THEN length.rest
        ELSE data.rest

\* .map(|v| SegmentContents::...(v)) on the result of a payload parser
map_contents(tag, r) ==
    IF ~r.ok THEN Err
    ELSE Ok(CASE tag = 20 -> PaletteSegment(r.value)
              [] tag = 21 -> ObjectSegment(r.value)
              [] tag = 128 -> EndSegment
              [] OTHER -> r.value,
            r.rest)

\* dispatch! {be_u8; ...}: the payload parser of a tag, its value made a
\* SegmentContents; any other tag fails
dispatch(tag, i) ==
    CASE tag = 20 -> map_contents(tag, parse_palette_definition_segment(i))
      [] tag = 21 -> map_contents(tag, parse_object_definition_segment(i))
      [] tag = 22 -> map_contents(tag, parse_presentation_composition_segment(i))
      [] tag = 23 -> map_contents(tag, parse_window_definition_segment(i))
      [] tag = 128 -> map_contents(tag, parse_end_of_display_set_segment(i))
      [] OTHER -> Err

\* Ok(Segment { pts, dts, contents }) of parse_segment, or the failure of
\* the payload parser
segment_of(i, contents) ==
    IF ~contents.ok THEN Fail(left_by_payload(i[11], SubSeq(i, 12, Len(i))))
    ELSE Ok(Segment(be_u32(SubSeq(i, 3, 6)).value, be_u32(SubSeq(i, 7, 10)).value,
                    contents.value),
            contents.rest)

\* parse_segment: the magic number 0x5047 ("PG"), pts, dts, the tag, the
\* payload.  The magic's verify puts the input back when it fails; the
\* fields after it are read one after the other and nothing is put back.
parse_segment(i) ==
    IF ~(Len(i) >= 2 /\ i[1] * 256 + i[2] = 20551) THEN Fail(i)
    ELSE IF Len(i) < 6 THEN Fail(SubSeq(i, 3, Len(i)))
    ELSE IF Len(i) < 10 THEN Fail(SubSeq(i, 7, Len(i)))
    ELSE IF Len(i) < 11 THEN Fail(SubSeq(i, 11, Len(i)))
    ELSE segment_of(i, dispatch(i[11], SubSeq(i, 12, Len(i))))

\* repeat(1.., parse_segment) after its first segment: segments are taken
\* until one fails to parse; the input is put back where that one started
RECURSIVE repeat_segment(_, _)
segment_repeated(acc, i, r) ==
    IF r.ok THEN repeat_segment(Append(acc, r.value), r.rest) ELSE Ok(acc, i)

repeat_segment(acc, i) == segment_repeated(acc, i, parse_segment(i))

ParseError(offset) == [kind |-> "ParseError", offset |-> offset]

\* .parse(input): the end of the input is wanted after the segments; the
\* error's offset is where the input stands when the failure is returned
parsed_whole(buf, r) ==
    IF ~r.ok \/ r.rest # <<>> THEN ParseError(Len(buf) - Len(r.rest))
    ELSE [kind |-> "Ok", segments |-> r.value]

\* repeat(1.., parse_segment): the first segment must parse, and the input
\* is left where its failure left it
repeat_segment_from_first(first) ==
    IF first.ok THEN repeat_segment(<<first.value>>, first.rest) ELSE first

\* parse_pgs: repeat(1.., parse_segment).parse(input)
parse_pgs(buf) == parsed_whole(buf, repeat_segment_from_first(parse_segment(buf)))

----------------------------------------------------------------------------
(* The buffers handed to parse_pgs, and main's pipeline on them: the       *)
(* buffer is parsed, the iterator walks the segments, the DisplaySets it   *)
(* yields are rendered.                                                    *)

MaxBufSegs == 2   \* segments of a buffer made of arbitrary segments
MaxEntries == 2   \* entries of the palette of a buffer that holds one display set

u32_bytes(v) == <<v \div 16777216, (v \div 65536) % 256, (v \div 256) % 256, v % 256>>

\* The magic number 0x5047
PG == <<80, 71>>

\* The bytes of a segment of timestamps 0
SegmentBytes(magic, tag, payload) ==
    magic \o u32_bytes(0) \o u32_bytes(0) \o <<tag>> \o payload

\* A payload whose 2-byte length is the number of its bytes
Prefixed(fields) == u16_bytes(Len(fields)) \o fields

\* The fields of a composition of 2 x 1 pixels, before its objects
CompositionFields(state, palette_update, count) ==
    u16_bytes(2) \o u16_bytes(1) \o <<16>> \o u16_bytes(0) \o <<state, palette_update, 0, count>>

\* Composition object 1 in window 1 at (0, 0), not cropped
ObjectOneBytes == u16_bytes(1) \o <<1, 0>> \o u16_bytes(0) \o u16_bytes(0)

\* Window 1: the frame
WindowOneBytes == <<1>> \o u16_bytes(0) \o u16_bytes(0) \o u16_bytes(2) \o u16_bytes(1)

\* The fields of object 1, of 1 x 1 pixels: flag is its sequence flag, slack
\* is added to its 3-byte length
ObjectFields(flag, slack, pixels) ==
    u16_bytes(1) \o <<0, flag>> \o u24_bytes(4 + Len(pixels) + slack)
        \o u16_bytes(1) \o u16_bytes(1) \o pixels

\* Palette entries on the wire: two ids, each with two sets of values
EntryBytes == {<<3, 16, 17, 18, 255>>, <<3, 32, 33, 34, 128>>,
               <<4, 48, 49, 50, 64>>, <<4, 16, 17, 18, 255>>}

RECURSIVE Flatten(_)
Flatten(ss) == IF ss = <<>> THEN <<>> ELSE ss[1] \o Flatten(Tail(ss))

\* The bytes of a palette segment of palette 0 with the entries given
PaletteBytes(entries) == SegmentBytes(PG, 20, Prefixed(<<0, 0>> \o Flatten(entries)))

EndBytes == SegmentBytes(PG, 128, <<0, 0>>)

WellFormedSegmentBytes ==
    { SegmentBytes(PG, 22, Prefixed(CompositionFields(128, 0, 0))),
      SegmentBytes(PG, 22, Prefixed(CompositionFields(0, 128, 1) \o ObjectOneBytes)),
      SegmentBytes(PG, 23, Prefixed(<<1>> \o WindowOneBytes)),
      PaletteBytes(<<<<3, 16, 17, 18, 255>>, <<3, 32, 33, 34, 128>>>>),
      SegmentBytes(PG, 21, Prefixed(ObjectFields(192, 0, <<3>>))),
      EndBytes }

\* Segments the format does not allow: a wrong magic number, an unknown
\* tag, a segment cut short, an End without 0x0000, a wrong state, palette
\* update or sequence flag, payloads whose fields need more bytes than
\* their length announces or leave some of them, pixel bytes that end
\* inside a run
MalformedSegmentBytes ==
    { SegmentBytes(<<80, 88>>, 128, <<0, 0>>),
      SegmentBytes(PG, 24, <<0, 0>>),
      <<80, 71, 0, 0>>,
      SegmentBytes(PG, 128, <<0, 1>>),
      SegmentBytes(PG, 22, Prefixed(CompositionFields(1, 0, 0))),
      SegmentBytes(PG, 22, Prefixed(CompositionFields(128, 1, 0))),
      SegmentBytes(PG, 22, Prefixed(CompositionFields(128, 0, 1))),
      SegmentBytes(PG, 22, Prefixed(CompositionFields(128, 0, 0) \o <<0>>)),
      SegmentBytes(PG, 23, Prefixed(<<2>> \o WindowOneBytes)),
      SegmentBytes(PG, 23, Prefixed(<<1>> \o WindowOneBytes \o <<0>>)),
      SegmentBytes(PG, 20, Prefixed(<<0>>)),
      SegmentBytes(PG, 20, Prefixed(<<0, 0, 3, 16, 17, 18, 255, 4, 48>>)),
      SegmentBytes(PG, 20, u16_bytes(40) \o <<0, 0, 3, 16, 17, 18, 255>>),
      SegmentBytes(PG, 21, Prefixed(ObjectFields(0, 0, <<3>>))),
      SegmentBytes(PG, 21, Prefixed(ObjectFields(192, 1, <<3>>))),
      SegmentBytes(PG, 21, Prefixed(ObjectFields(192, 0, <<3>>) \o <<0>>)),
      SegmentBytes(PG, 21, Prefixed(ObjectFields(192, 0, <<3, 0>>))),
      SegmentBytes(PG, 21, Prefixed(ObjectFields(192, 0, <<0, 69>>))),
      SegmentBytes(PG, 21, Prefixed(ObjectFields(192, 0, <<0, 197, 10>>))) }

SegmentBytesPool == WellFormedSegmentBytes \cup MalformedSegmentBytes

\* One display set: a composition of object 1, its window, a palette of the
\* entries given, the object (one pixel of color 3), End
DisplaySetBytes(entries) ==
    SegmentBytes(PG, 22, Prefixed(CompositionFields(128, 0, 1) \o ObjectOneBytes))
        \o SegmentBytes(PG, 23, Prefixed(<<1>> \o WindowOneBytes))
        \o PaletteBytes(entries)
        \o SegmentBytes(PG, 21, Prefixed(ObjectFields(192, 0, <<3>>)))
        \o EndBytes

InitPgs ==
    \/ \E n \in 0..MaxBufSegs : \E ss \in SeqsOfLen(SegmentBytesPool, n) :
       \E trailing \in {<<>>, <<80>>} : InitParse(Flatten(ss) \o trailing)
    \/ \E n \in 0..MaxEntries : \E entries \in SeqsOfLen(EntryBytes, n) :
           InitParse(DisplaySetBytes(entries))

\* main: parse_pgs(&mut data), then DisplaySetIterator::new(&pgs) when it is
\* Ok; the process exits when it is not
parse_buffer ==
    /\ output = NotParsed
    /\ output' = parse_pgs(input)
    /\ segments' = IF output'.kind = "Ok" THEN output'.segments ELSE segments
    /\ UNCHANGED <<input, index, windows, palettes, objects, ret, yielded, groups,
                   render_vars>>

\* main's loop over the iterator
walk_parsed ==
    /\ output # NotParsed
    /\ output.kind = "Ok"
    /\ next

\* main's call of render_display_set on what the iterator yields
render_parsed ==
    /\ output # NotParsed
    /\ output.kind = "Ok"
    /\ render_yielded

NextPgs ==
    \/ parse_buffer
    \/ walk_parsed
    \/ render_parsed

SpecPgs == InitPgs /\ [][NextPgs]_vars

----------------------------------------------------------------------------
(* What the claims speak of, read off the segment sequence itself.         *)

IsComposition(j) == segments[j + 1].contents.tag = "PresentationComposition"
IsEnd(j) == segments[j + 1].contents.tag = "End"
SameTimestamps(j, k) ==
    /\ segments[j + 1].pts = segments[k + 1].pts
    /\ segments[j + 1].dts = segments[k + 1].dts

\* Where the group after the yielded ones starts
NextStart == IF groups = <<>> THEN 0 ELSE groups[Len(groups)].last + 1

\* The last call of next() did not yield, and found a composition to start from
Attempted ==
    /\ ret.kind \in {"None", "panic"}
    /\ NextStart < Len(segments)
    /\ IsComposition(NextStart)

\* The ids a group defines: its segments are first..last
DefinedWindows(g) ==
    UNION {{segments[j + 1].contents.windows[n].id :
                n \in DOMAIN segments[j + 1].contents.windows} :
        j \in {k \in g.first..g.last : segments[k + 1].contents.tag = "WindowDefinition"}}
DefinedPalettes(g) ==
    {segments[j + 1].contents.palette.id :
        j \in {k \in g.first..g.last : segments[k + 1].contents.tag = "PaletteDefinition"}}
DefinedObjects(g) ==
    {segments[j + 1].contents.object.id :
        j \in {k \in g.first..g.last : segments[k + 1].contents.tag = "ObjectDefinition"}}

\* The maps the claim C1 expects after merging a segment's definitions
MergeSegment(maps, seg) ==
    LET c == seg.contents
    IN  CASE c.tag = "WindowDefinition" ->
                [maps EXCEPT !.windows = insert_windows(@, c.windows, 1)]
          [] c.tag = "PaletteDefinition" ->
                [maps EXCEPT !.palettes = Insert(@, c.palette.id, c.palette)]
          [] c.tag = "ObjectDefinition" ->
                [maps EXCEPT !.objects = Insert(@, c.object.id, c.object)]
          [] OTHER -> maps

RECURSIVE MergeSegments(_, _, _)
MergeSegments(maps, j, last) ==
    IF j > last THEN maps
    ELSE MergeSegments(MergeSegment(maps, segments[j + 1]), j + 1, last)

\* The carried state at the end of the i-th yielded group: empty at an
\* EpochStart (and before the first group), else that of the group before,
\* then this group's definitions in order.
RECURSIVE CarriedAfter(_)
CarriedAfter(i) ==
    LET g == groups[i]
        base == IF i = 1 \/ segments[g.first + 1].contents.composition_state = "EpochStart"
                THEN [windows |-> EmptyMap, palettes |-> EmptyMap, objects |-> EmptyMap]
                ELSE CarriedAfter(i - 1)
    IN  MergeSegments(base, g.first, g.last)

MapsOf(ds) == [windows |-> ds.windows, palettes |-> ds.palettes, objects |-> ds.objects]

----------------------------------------------------------------------------
(* C1: every yielded DisplaySet holds the windows, palettes and objects    *)
(* defined in the earlier completed groups since the most recent           *)
(* EpochStart composition and those of its own group, the latest           *)
(* definition of an id winning.                                            *)
C1_CarriedState ==
    \A i \in DOMAIN yielded : MapsOf(yielded[i]) = CarriedAfter(i)

(* C2: the DisplaySet of an EpochStart composition holds only the ids its  *)
(* own group defines; rendering it never returns a buffer when one of its  *)
(* composition objects names an object its group does not define, the      *)
(* error is ObjectNotFound naming that id when the lookup is reached first *)
(* (it is the first composition object), and an ObjectNotFound always      *)
(* names the first such id.                                                *)
MissingObjects(i) ==
    {k \in DOMAIN yielded[i].composition_objects :
        yielded[i].composition_objects[k].id \notin DefinedObjects(groups[i])}

C2_EpochReset ==
    \A i \in DOMAIN yielded :
        yielded[i].composition_state = "EpochStart" =>
            /\ DOMAIN yielded[i].windows = DefinedWindows(groups[i])
            /\ DOMAIN yielded[i].palettes = DefinedPalettes(groups[i])
            /\ DOMAIN yielded[i].objects = DefinedObjects(groups[i])
            /\ (display_set = yielded[i] /\ MissingObjects(i) # {}) =>
                 LET k == CHOOSE m \in MissingObjects(i) : \A n \in MissingObjects(i) : m <= n
                     id == yielded[i].composition_objects[k].id
                 IN  /\ render_result.kind \in {"ObjectNotFound", "PaletteNotFound", "Panic"}
                     /\ render_result.kind = "ObjectNotFound" => render_result.object_id = id
                     /\ k = 1 => render_result = [kind |-> "ObjectNotFound", object_id |-> id]

\* An earlier epoch defined object 1; the EpochStart group that follows does
\* not, names it, and was rendered.
C2_Witness ==
    /\ Len(yielded) = 2
    /\ 1 \in DOMAIN yielded[1].objects
    /\ yielded[2].composition_state = "EpochStart"
    /\ display_set = yielded[2]
    /\ display_set # yielded[1]
    /\ render_result = [kind |-> "ObjectNotFound", object_id |-> 1]

----------------------------------------------------------------------------
\* A segment after the composition at s, with no End segment before it,
\* whose timestamps differ from the composition's
MismatchInGroup(s) ==
    \E j \in (s + 1)..(Len(segments) - 1) :
        /\ ~SameTimestamps(j, s)
        /\ \A k \in (s + 1)..(j - 1) : ~IsEnd(k)

\* A second composition after the one at s, with no End segment before it
CompositionInGroup(s) ==
    \E j \in (s + 1)..(Len(segments) - 1) :
        /\ IsComposition(j)
        /\ \A k \in (s + 1)..(j - 1) : ~IsEnd(k)

\* The first segment after the composition at s that is an End, a
\* composition or has other timestamps: where the group's accumulation stops
FirstStop(s) ==
    CHOOSE j \in (s + 1)..(Len(segments) - 1) :
        /\ IsEnd(j) \/ IsComposition(j) \/ ~SameTimestamps(j, s)
        /\ \A k \in (s + 1)..(j - 1) :
              ~IsEnd(k) /\ ~IsComposition(k) /\ SameTimestamps(k, s)

(* C3: a segment of a group, up to and including its End, whose            *)
(* presentation or decoding timestamp differs from the group's stops the   *)
(* walk with a panic at that segment, and no DisplaySet is yielded for the *)
(* group; every yielded DisplaySet was built from segments whose           *)
(* timestamps are its own.                                                 *)
C3_GroupCohesion ==
    /\ \A i \in DOMAIN yielded : \A j \in groups[i].first..groups[i].last :
          /\ segments[j + 1].pts = yielded[i].presentation_timestamp
          /\ segments[j + 1].dts = yielded[i].decoding_timestamp
    /\ (Attempted /\ MismatchInGroup(NextStart)) =>
          /\ ret.kind = "panic"
          /\ Len(yielded) = Len(groups)
          /\ index = FirstStop(NextStart)
          /\ ~SameTimestamps(index, NextStart) =>
                ret.at = (IF segments[index + 1].pts # segments[NextStart + 1].pts
                          THEN "pts_mismatch" ELSE "dts_mismatch")

\* After one group was yielded, the next one stopped at a segment whose
\* decoding timestamp alone differs
C3_Witness ==
    /\ Len(yielded) = 1
    /\ Attempted
    /\ MismatchInGroup(NextStart)
    /\ ret = [kind |-> "panic", at |-> "dts_mismatch"]
    /\ index > NextStart + 1

(* C4: an input that ends inside a group (a composition, then definitions, *)
(* no End) is reported as fatal, unlike the clean end of the walk, which   *)
(* returns None.                                                           *)
EndsInsideGroup ==
    /\ Attempted
    /\ \A j \in (NextStart + 1)..(Len(segments) - 1) :
          ~IsEnd(j) /\ ~IsComposition(j) /\ SameTimestamps(j, NextStart)

C4_IncompleteStreamIsFatal == EndsInsideGroup => ret.kind # "None"

(* C5: a second composition after a group's composition and before its End *)
(* stops the walk with a panic, and no DisplaySet is yielded for the       *)
(* group; the segments of every yielded DisplaySet are one composition,    *)
(* the first, then definitions, then the End.                              *)
C5_SecondComposition ==
    /\ \A i \in DOMAIN yielded :
          /\ IsComposition(groups[i].first)
          /\ IsEnd(groups[i].last)
          /\ \A j \in (groups[i].first + 1)..groups[i].last : ~IsComposition(j)
          /\ \A j \in groups[i].first..(groups[i].last - 1) : ~IsEnd(j)
    /\ (Attempted /\ CompositionInGroup(NextStart)) =>
          /\ ret.kind = "panic"
          /\ Len(yielded) = Len(groups)
          /\ index = FirstStop(NextStart)
          /\ SameTimestamps(index, NextStart) => ret.at = "composition_in_group"

\* After one group was yielded, the next one met a second composition after
\* a definition
C5_Witness ==
    /\ Len(yielded) = 1
    /\ Attempted
    /\ ret = [kind |-> "panic", at |-> "composition_in_group"]
    /\ IsComposition(index)
    /\ index > NextStart + 1

----------------------------------------------------------------------------
\* The segments from j on are well-formed groups: a composition, definitions
\* with its timestamps, an End with its timestamps; again, to the end.
RECURSIVE WellFormedFrom(_)
WellFormedFrom(j) ==
    \/ j = Len(segments)
    \/ /\ j < Len(segments)
       /\ IsComposition(j)
       /\ \E e \in (j + 1)..(Len(segments) - 1) :
             /\ IsEnd(e)
             /\ \A k \in (j + 1)..e : SameTimestamps(k, j) /\ ~IsComposition(k)
             /\ \A k \in (j + 1)..(e - 1) : ~IsEnd(k)
             /\ WellFormedFrom(e + 1)

\* The indices of the End segments, and of the compositions, in stream order
EndIndices == {j \in 0..(Len(segments) - 1) : IsEnd(j)}
CompositionIndices == {j \in 0..(Len(segments) - 1) : IsComposition(j)}
Nth(S, n) == CHOOSE j \in S : Cardinality({k \in S : k < j}) = n - 1

(* C6: a sequence of k well-formed groups yields exactly k DisplaySets in  *)
(* stream order, the i-th at the i-th End, with the i-th composition's     *)
(* timestamps, width, height, frame rate, composition number, composition  *)
(* state, palette id and composition objects; then the walk returns None.  *)
C6_OnePerGroup ==
    WellFormedFrom(0) =>
        /\ ret.kind \in {"start", "Some", "None"}
        /\ Len(yielded) <= Cardinality(EndIndices)
        /\ ret.kind = "None" => Len(yielded) = Cardinality(EndIndices)
        /\ ret.kind = "Some" => index = groups[Len(groups)].last + 1
        /\ \A i \in DOMAIN yielded :
              LET seg == segments[Nth(CompositionIndices, i) + 1]
                  pc == seg.contents
              IN  /\ groups[i].last = Nth(EndIndices, i)
                  /\ groups[i].first = Nth(CompositionIndices, i)
                  /\ yielded[i].presentation_timestamp = seg.pts
                  /\ yielded[i].decoding_timestamp = seg.dts
                  /\ yielded[i].width = pc.width
                  /\ yielded[i].height = pc.height
                  /\ yielded[i].frame_rate = pc.frame_rate
                  /\ yielded[i].composition_number = pc.composition_number
                  /\ yielded[i].composition_state = pc.composition_state
                  /\ yielded[i].palette_id = pc.palette_id
                  /\ yielded[i].composition_objects = pc.composition_objects

\* Two well-formed groups walked to the end, the second a composition of no
\* objects followed by its End
C6_Witness ==
    /\ WellFormedFrom(0)
    /\ ret = [kind |-> "None", at |-> "exhausted"]
    /\ Len(yielded) = 2
    /\ yielded[1].composition_objects # <<>>
    /\ yielded[2].composition_objects = <<>>
    /\ groups[2].last = groups[2].first + 1
    /\ yielded[1].presentation_timestamp # yielded[2].presentation_timestamp

----------------------------------------------------------------------------
(* The compositor's claims, on a rendered DisplaySet of one composition    *)
(* object whose object is defined.                                         *)

Rendered == render_result # NotRendered

TheObject == display_set.composition_objects[1]
TheDefinition == display_set.objects[TheObject.id]

\* The color index of the k-th pixel (0-based) of the runs
RECURSIVE ColorAt(_, _, _)
ColorAt(data, i, k) ==
    IF k < data[i].count THEN data[i].color ELSE ColorAt(data, i + 1, k - data[i].count)

RECURSIVE TotalCount(_, _)
TotalCount(data, i) == IF i > Len(data) THEN 0 ELSE data[i].count + TotalCount(data, i + 1)

\* The four bytes of the frame pixel (x, y) in a packed buffer
PackedPixel(buf, width, x, y) ==
    LET o == (y * width + x) * PIXEL_SIZE
    IN  <<buf[o + 1], buf[o + 2], buf[o + 3], buf[o + 4]>>

PackedColor(e) == <<e.alpha, e.luminance, e.color_difference_blue, e.color_difference_red>>

\* One object with a crop rectangle that is not empty; the object lies
\* inside the frame and ends left of the frame's right edge, its runs total
\* its size and the palette has their colors
CroppedInFrame ==
    /\ Rendered
    /\ Len(display_set.composition_objects) = 1
    /\ TheObject.cropped.some
    /\ TheObject.cropped.width > 0
    /\ TheObject.cropped.height > 0
    /\ TheObject.horizontal_position + TheDefinition.width < display_set.width
    /\ TheObject.vertical_position + TheDefinition.height <= display_set.height
    /\ TotalCount(TheDefinition.data, 1) = TheDefinition.width * TheDefinition.height
    /\ 0 \in DOMAIN display_set.palettes
    /\ \A i \in DOMAIN TheDefinition.data :
          TheDefinition.data[i].color \in DOMAIN display_set.palettes[0].entries

(* C9: with a crop rectangle, the object's pixel at the object-relative    *)
(* position (ox, oy) is written with its palette color iff the position is *)
(* inside the rectangle, and is left zero otherwise.                       *)
C9_CropMasking ==
    CroppedInFrame =>
        /\ render_result.kind = "Ok"
        /\ \A k \in 0..(TheDefinition.width * TheDefinition.height - 1) :
              LET ox == k % TheDefinition.width
                  oy == k \div TheDefinition.width
                  crop == TheObject.cropped
                  inside == /\ crop.horizontal_position <= ox
                            /\ ox < crop.horizontal_position + crop.width
                            /\ crop.vertical_position <= oy
                            /\ oy < crop.vertical_position + crop.height
              IN  PackedPixel(render_result.packed, display_set.width,
                              TheObject.horizontal_position + ox,
                              TheObject.vertical_position + oy)
                  = IF inside
                    THEN PackedColor(display_set.palettes[0].entries[
                                         ColorAt(TheDefinition.data, 1, k)])
                    ELSE <<0, 0, 0, 0>>

(* C10: render_display_set returns a buffer of width * height * 4 bytes or *)
(* an error value; it never aborts.                                        *)
C10_NeverAborts ==
    Rendered =>
        /\ render_result.kind \in {"Ok", "ObjectNotFound", "PaletteNotFound", "YuvError"}
        /\ render_result.kind = "Ok" =>
              Len(render_result.rgba) = display_set.width * display_set.height * PIXEL_SIZE

----------------------------------------------------------------------------
(* The run-length table of the claim C7: the bytes a run takes and the run *)
(* it gives, by its leading byte and the top two bits of the byte after.   *)

TableLength(i) ==
    IF i[1] # 0 THEN 1
    ELSE CASE i[2] \div 64 = 0 -> 2
           [] i[2] \div 64 = 1 -> 3
           [] i[2] \div 64 = 2 -> 3
           [] i[2] \div 64 = 3 -> 4

TableRun(i) ==
    IF i[1] # 0 THEN [count |-> 1, color |-> i[1]]
    ELSE CASE i[2] \div 64 = 0 -> [count |-> i[2] % 64, color |-> 0]
           [] i[2] \div 64 = 1 -> [count |-> (i[2] % 64) * 256 + i[3], color |-> 0]
           [] i[2] \div 64 = 2 -> [count |-> i[2] % 64, color |-> i[3]]
           [] i[2] \div 64 = 3 -> [count |-> (i[2] % 64) * 256 + i[3], color |-> i[4]]

\* The first run of i is whole
WholeRun(i) == Len(i) >= 1 /\ (i[1] = 0 => Len(i) >= 2) /\ Len(i) >= TableLength(i)

From(i, p) == SubSeq(i, p + 1, Len(i))

\* i is a concatenation of whole runs
RECURSIVE WellFormedRuns(_)
WellFormedRuns(i) ==
    i = <<>> \/ (WholeRun(i) /\ WellFormedRuns(From(i, TableLength(i))))

RECURSIVE TableRuns(_)
TableRuns(i) ==
    IF i = <<>> THEN <<>> ELSE <<TableRun(i)>> \o TableRuns(From(i, TableLength(i)))

\* The offsets in i at which its runs start
RECURSIVE RunStarts(_, _)
RunStarts(i, p) ==
    IF p >= Len(i) THEN {} ELSE {p} \cup RunStarts(i, p + TableLength(From(i, p)))

(* C7: on a concatenation of whole runs the decoder returns the runs of    *)
(* the table in order and leaves no byte; each run is decoded from exactly *)
(* the 1, 2, 3, 3 or 4 bytes the table gives it.                           *)
C7_DecodeTable ==
    (output # NotParsed /\ WellFormedRuns(input)) =>
        /\ output = [ok |-> TRUE, value |-> TableRuns(input), rest |-> <<>>]
        /\ \A p \in RunStarts(input, 0) :
              parse_single_encoded_pixel(From(input, p))
                = [ok |-> TRUE, value |-> TableRun(From(input, p)),
                   rest |-> From(input, p + TableLength(From(input, p)))]

\* 0x00 0x45 0x0A 0x05 decoded: a run of 1290 of color 0, then one pixel of color 5
C7_Witness ==
    /\ input = <<0, 69, 10, 5>>
    /\ output # NotParsed
    /\ output.ok
    /\ output.value = <<[count |-> 1290, color |-> 0], [count |-> 1, color |-> 5]>>

(* C8: the runs of every ObjectDefinition that parsing accepts total its   *)
(* width times its height.                                                 *)
C8_RunsCoverObject ==
    (output # NotParsed /\ output.ok) =>
        TotalCount(output.value.data, 1) = output.value.width * output.value.height

----------------------------------------------------------------------------
(* The format of a buffer, as the segment layouts give it: every payload   *)
(* fills the length it announces.                                          *)

\* The bytes of n composition objects, eight each and sixteen when cropped
RECURSIVE ObjectsFill(_, _)
ObjectsFill(n, d) ==
    IF n = 0 THEN d = <<>>
    ELSE /\ Len(d) >= 8
         /\ LET size == IF d[4] = 64 THEN 16 ELSE 8
            IN  Len(d) >= size /\ ObjectsFill(n - 1, SubSeq(d, size + 1, Len(d)))

\* d: the bytes the payload's length announces
WellFormedFields(tag, d) ==
    CASE tag = 20 -> Len(d) >= 2 /\ (Len(d) - 2) % 5 = 0
      [] tag = 21 -> /\ Len(d) >= 11
                     /\ d[4] \in {64, 128, 192}
                     /\ Len(d) = 7 + (d[5] * 256 + d[6]) * 256 + d[7]
                     /\ WellFormedRuns(SubSeq(d, 12, Len(d)))
      [] tag = 22 -> /\ Len(d) >= 11
                     /\ d[8] \in {0, 64, 128}
                     /\ d[9] \in {0, 128}
                     /\ ObjectsFill(d[11], SubSeq(d, 12, Len(d)))
      [] tag = 23 -> Len(d) >= 1 /\ Len(d) = 1 + 9 * d[1]
      [] OTHER -> FALSE

\* The number of bytes of the well-formed segment i starts with, 0 if it
\* starts with none
WellFormedSegmentLength(i) ==
    IF Len(i) < 13 \/ SubSeq(i, 1, 2) # PG THEN 0
    ELSE IF i[11] = 128 THEN (IF i[12] = 0 /\ i[13] = 0 THEN 13 ELSE 0)
    ELSE LET length == i[12] * 256 + i[13]
         IN  IF Len(i) >= 13 + length /\ WellFormedFields(i[11], SubSeq(i, 14, 13 + length))
             THEN 13 + length
             ELSE 0

\* i is a concatenation of well-formed segments
RECURSIVE WellFormedSegments(_)
WellFormedSegments(i) ==
    \/ i = <<>>
    \/ /\ WellFormedSegmentLength(i) > 0
       /\ WellFormedSegments(SubSeq(i, WellFormedSegmentLength(i) + 1, Len(i)))

Parsed == output # NotParsed

(* C11: parse_pgs returns Ok only when the whole buffer is a concatenation *)
(* of one or more well-formed segments, and then returns one Segment for   *)
(* each; any other buffer, the empty one included, makes it fail.          *)
C11_WholeBuffer ==
    (Parsed /\ output.kind = "Ok") => (input # <<>> /\ WellFormedSegments(input))

\* The bytes the objects of a composition take: n are still to be read
RECURSIVE ObjectsLength(_, _)
ObjectsLength(n, d) ==
    IF n = 0 \/ Len(d) < 8 THEN 0
    ELSE LET size == IF d[4] = 64 THEN 16 ELSE 8
         IN  size + ObjectsLength(n - 1, SubSeq(d, size + 1, Len(d)))

\* The number of bytes the fields of a payload take of the bytes d that its
\* length announces; for an object, of the bytes both its lengths announce
FieldsLength(tag, d) ==
    CASE tag = 20 -> 2 + 5 * ((Len(d) - 2) \div 5)
      [] tag = 21 -> LET inner == (d[5] * 256 + d[6]) * 256 + d[7]
                         pixels == SubSeq(d, 12, 7 + inner)
                     IN  7 + inner - Len(parse_run_length_encoded_pixels(pixels).rest)
      [] tag = 22 -> 11 + ObjectsLength(d[11], SubSeq(d, 12, Len(d)))
      [] tag = 23 -> 1 + 9 * d[1]
      [] OTHER -> 0

\* The segments of a buffer that parses, from the bytes i on, have payloads
\* whose fields take exactly the bytes announced
RECURSIVE ExactLengths(_)
ExactLengths(i) ==
    \/ Len(i) < 13
    \/ i[11] = 128 /\ ExactLengths(SubSeq(i, 14, Len(i)))
    \/ /\ i[11] # 128
       /\ LET length == i[12] * 256 + i[13]
          IN  /\ FieldsLength(i[11], SubSeq(i, 14, 13 + length)) = length
              /\ ExactLengths(SubSeq(i, 14 + length, Len(i)))

(* C12: parsing succeeds only if the fields of every PaletteDefinition,    *)
(* WindowDefinition, ObjectDefinition and PresentationComposition payload  *)
(* take exactly the bytes its length prefix announces: neither more nor    *)
(* fewer.                                                                  *)
C12_LengthPrefix ==
    (Parsed /\ output.kind = "Ok") => ExactLengths(input)

(* C13: the buffer of a composition of 2 x 1 pixels without composition    *)
(* objects, followed by End, parses to one DisplaySet, and rendering it    *)
(* returns Ok with 2 * 1 * 4 = 8 bytes, all zero.                          *)
C13_TransparentFrame ==
    ( /\ input = SegmentBytes(PG, 22, Prefixed(CompositionFields(128, 0, 0))) \o EndBytes
      /\ Rendered )
    => /\ render_result.kind = "Ok"
       /\ render_result.rgba = <<0, 0, 0, 0, 0, 0, 0, 0>>

\* The payloads of the segments of a buffer that parses, in order: the tag
\* and the bytes its length announces (none for an End)
RECURSIVE Payloads(_)
Payloads(i) ==
    IF Len(i) < 13 THEN <<>>
    ELSE IF i[11] = 128 THEN <<[tag |-> 128, bytes |-> <<>>]>> \o Payloads(SubSeq(i, 14, Len(i)))
    ELSE LET length == i[12] * 256 + i[13]
         IN  <<[tag |-> i[11], bytes |-> SubSeq(i, 14, 13 + length)]>>
                 \o Payloads(SubSeq(i, 14 + length, Len(i)))

\* The whole 5-byte entries of a palette payload, in wire order
WireEntries(d) == [k \in 1..((Len(d) - 2) \div 5) |-> SubSeq(d, 5 * k - 2, 5 * k + 2)]

\* The last of the wire entries that carries the id
LastWithId(wire, id) ==
    wire[CHOOSE k \in DOMAIN wire :
            /\ wire[k][1] = id
            /\ \A j \in DOMAIN wire : wire[j][1] = id => j <= k]

(* C14: the map of a parsed PaletteDefinition has one entry for each       *)
(* distinct id among its wire entries, and each holds the values of the    *)
(* last wire entry that carries its id.                                    *)
C14_PaletteOverwrite ==
    (Parsed /\ output.kind = "Ok") =>
        \A k \in DOMAIN output.segments :
            Payloads(input)[k].tag = 20 =>
                LET wire == WireEntries(Payloads(input)[k].bytes)
                    entries == output.segments[k].contents.palette.entries
                IN  /\ DOMAIN entries = {wire[j][1] : j \in DOMAIN wire}
                    /\ \A id \in DOMAIN entries :
                          entries[id] = parse_palette_entry(LastWithId(wire, id)).value

\* Two entries of id 3 on the wire: the map holds the second alone
C14_Witness ==
    /\ input = DisplaySetBytes(<<<<3, 16, 17, 18, 255>>, <<3, 32, 33, 34, 128>>>>)
    /\ Parsed
    /\ output.kind = "Ok"
    /\ DOMAIN output.segments[3].contents.palette.entries = {3}
    /\ output.segments[3].contents.palette.entries[3].luminance = 32
    /\ output.segments[3].contents.palette.entries[3].alpha = 128

\* The offset of the first mismatch of a buffer when it is a wrong magic
\* number, an unknown tag, or an invalid composition state, palette update
\* flag or sequence flag after well-formed segments; -1 when the buffer has
\* no mismatch or another one first.  i: the bytes from the offset at on.
RECURSIVE MismatchOffset(_, _)
MismatchOffset(i, at) ==
    IF Len(i) < 2 THEN -1
    ELSE IF SubSeq(i, 1, 2) # PG THEN at
    ELSE IF Len(i) < 11 THEN -1
    ELSE IF i[11] \notin {20, 21, 22, 23, 128} THEN at + 10
    ELSE IF Len(i) < 13 THEN -1
    ELSE LET length == IF i[11] = 128 THEN 0 ELSE i[12] * 256 + i[13]
             d == SubSeq(i, 14, 13 + length)
         IN  IF Len(i) < 13 + length THEN -1
             ELSE IF i[11] = 21 /\ Len(d) >= 4 /\ d[4] \notin {64, 128, 192} THEN at + 16
             ELSE IF i[11] = 22 /\ Len(d) >= 8 /\ d[8] \notin {0, 64, 128} THEN at + 20
             ELSE IF i[11] = 22 /\ Len(d) >= 9 /\ d[9] \notin {0, 128} THEN at + 21
             ELSE IF WellFormedSegmentLength(i) = 0 THEN -1
             ELSE MismatchOffset(SubSeq(i, 14 + length, Len(i)), at + 13 + length)

(* C15: when the first mismatch of the buffer is a wrong magic number, an  *)
(* unknown tag or an invalid enum byte, parse_pgs fails with the offset of *)
(* that byte, in the first segment as in a later one.                      *)
C15_ErrorOffset ==
    (Parsed /\ MismatchOffset(input, 0) >= 0) =>
        output = ParseError(MismatchOffset(input, 0))

\* The pixel bytes of an object payload: those its 3-byte length announces
\* after the width and the height
PixelBytes(d) == SubSeq(d, 12, 7 + (d[5] * 256 + d[6]) * 256 + d[7])

(* C16: a buffer parses only if the pixel bytes of each of its object      *)
(* segments are whole runs: bytes that end inside a run make the parse     *)
(* fail.                                                                   *)
C16_WholePixelPayload ==
    (Parsed /\ output.kind = "Ok") =>
        \A k \in DOMAIN output.segments :
            Payloads(input)[k].tag = 21 =>
                WellFormedRuns(PixelBytes(Payloads(input)[k].bytes))

\* One object without a crop rectangle that lies inside the frame; its runs
\* total its size and the palette has their colors
UncroppedInFrame ==
    /\ Rendered
    /\ Len(display_set.composition_objects) = 1
    /\ ~TheObject.cropped.some
    /\ TheObject.horizontal_position + TheDefinition.width <= display_set.width
    /\ TheObject.vertical_position + TheDefinition.height <= display_set.height
    /\ TotalCount(TheDefinition.data, 1) = TheDefinition.width * TheDefinition.height
    /\ 0 \in DOMAIN display_set.palettes
    /\ \A i \in DOMAIN TheDefinition.data :
          TheDefinition.data[i].color \in DOMAIN display_set.palettes[0].entries

(* C17: the k-th pixel of the runs of an uncropped object of width W at    *)
(* (h_pos, v_pos), with h_pos + W <= frame width, is written at the frame  *)
(* position (h_pos + k mod W, v_pos + k div W), for every h_pos.           *)
C17_CursorStepping ==
    UncroppedInFrame =>
        /\ render_result.kind = "Ok"
        /\ \A k \in 0..(TheDefinition.width * TheDefinition.height - 1) :
              PackedPixel(render_result.packed, display_set.width,
                          TheObject.horizontal_position + (k % TheDefinition.width),
                          TheObject.vertical_position + (k \div TheDefinition.width))
              = PackedColor(display_set.palettes[0].entries[ColorAt(TheDefinition.data, 1, k)])

\* The wire entry that gives the color of the one pixel painted: the last
\* entry of that id in the buffer's palette segment
PaintedEntry ==
    LET payloads == Payloads(input)
        k == CHOOSE k \in DOMAIN payloads : payloads[k].tag = 20
    IN  LastWithId(WireEntries(payloads[k].bytes), ColorAt(TheDefinition.data, 1, 0))

\* A buffer parsed, walked and rendered to a buffer, with an object painted
PaintedFromWire ==
    /\ Parsed
    /\ Rendered
    /\ render_result.kind = "Ok"
    /\ Len(display_set.composition_objects) = 1
    /\ TheDefinition.data # <<>>
    /\ TheDefinition.data[1].count > 0

(* C18 as stated: of the wire bytes (entry_id, b1, b2, b3, b4) of a        *)
(* palette entry, b2 is the blue difference and b3 the red difference: a   *)
(* pixel painted with the entry has the packed bytes (b4, b1, b2, b3).     *)
C18_BlueBeforeRed ==
    PaintedFromWire =>
        PackedPixel(render_result.packed, display_set.width,
                    TheObject.horizontal_position, TheObject.vertical_position)
        = <<PaintedEntry[5], PaintedEntry[2], PaintedEntry[3], PaintedEntry[4]>>

(* C18, amended: of the wire bytes (entry_id, b1, b2, b3, b4) of a palette *)
(* entry, b1 is the luminance, b2 the red difference, b3 the blue          *)
(* difference and b4 the alpha: a pixel painted with the entry has the     *)
(* packed bytes (alpha, luminance, blue, red) = (b4, b1, b3, b2).          *)
C18_ChannelMapping ==
    PaintedFromWire =>
        /\ display_set.palettes[0].entries[PaintedEntry[1]]
             = [id |-> PaintedEntry[1], luminance |-> PaintedEntry[2],
                color_difference_red |-> PaintedEntry[3],
                color_difference_blue |-> PaintedEntry[4], alpha |-> PaintedEntry[5]]
        /\ PackedPixel(render_result.packed, display_set.width,
                       TheObject.horizontal_position, TheObject.vertical_position)
           = <<PaintedEntry[5], PaintedEntry[2], PaintedEntry[4], PaintedEntry[3]>>

\* The entry 03 10 11 12 FF painted: FF 10 12 11
C18_Witness ==
    /\ input = DisplaySetBytes(<<<<3, 16, 17, 18, 255>>>>)
    /\ PaintedFromWire
    /\ render_result.packed = <<255, 16, 18, 17, 0, 0, 0, 0>>

\* Palette 0 of the DisplaySet rendered has the color
Resolvable(color) ==
    0 \in DOMAIN display_set.palettes /\ color \in DOMAIN display_set.palettes[0].entries

\* The first run of the object whose color palette 0 lacks; 0 if it has all
FirstUnresolved ==
    LET data == TheDefinition.data
        missing == {i \in DOMAIN data : ~Resolvable(data[i].color)}
    IN  IF missing = {} THEN 0 ELSE CHOOSE i \in missing : \A j \in missing : i <= j

\* The painting of the object cannot abort: the frame has pixels, the
\* object lies inside it, its runs do not exceed its size, and its crop
\* rectangle, if any, is not of width 0
PaintingStaysInFrame ==
    /\ display_set.width > 0
    /\ TheObject.horizontal_position + TheDefinition.width <= display_set.width
    /\ TheObject.vertical_position + TheDefinition.height <= display_set.height
    /\ TotalCount(TheDefinition.data, 1) <= TheDefinition.width * TheDefinition.height
    /\ TheObject.cropped.some => TheObject.cropped.width > 0

(* C19: the color of every run of a painted object, runs of length 0       *)
(* included, is looked up in palette 0 whatever palette the composition    *)
(* names.  At the first run whose color palette 0 lacks, or when there is  *)
(* no palette 0, render_display_set returns PaletteNotFound with palette   *)
(* id 0 and that color, and no buffer, even after earlier runs were        *)
(* painted; it returns no PaletteNotFound when palette 0 has every color.  *)
(* (The painting of the runs before that one can abort first when the      *)
(* object leaves the frame.)                                               *)
C19_PaletteResolution ==
    (Rendered /\ Len(display_set.composition_objects) = 1
        /\ TheObject.id \in DOMAIN display_set.objects) =>
        LET u == FirstUnresolved
            not_found == [kind |-> "PaletteNotFound", palette_id |-> 0,
                          entry_id |-> TheDefinition.data[u].color]
        IN  /\ u = 0 => render_result.kind # "PaletteNotFound"
            /\ u > 0 => render_result.kind \in {"PaletteNotFound", "Panic"}
            /\ (u > 0 /\ render_result.kind = "PaletteNotFound") => render_result = not_found
            /\ (u > 0 /\ (u = 1 \/ PaintingStaysInFrame)) => render_result = not_found

\* The composition names palette 1; palette 0 lacks color 0, the color of
\* the object's second run, of length 0, which follows a run of two pixels
C19_Witness ==
    /\ Rendered
    /\ Len(display_set.composition_objects) = 1
    /\ display_set.palette_id = 1
    /\ FirstUnresolved = 2
    /\ TheDefinition.data[1].count = 2
    /\ TheDefinition.data[2].count = 0
    /\ render_result = [kind |-> "PaletteNotFound", palette_id |-> 0, entry_id |-> 0]

(* C20: no call of next() changes a DisplaySet yielded before it: its      *)
(* windows, palettes, objects and composition objects, and every other     *)
(* field, stay what they were when it was yielded.                         *)
C20_SnapshotIndependence ==
    [][\A i \in DOMAIN yielded : i \in DOMAIN yielded' /\ yielded'[i] = yielded[i]]_vars

\* A DisplaySet with windows was yielded, then the DisplaySet of an
\* EpochStart group that defines none: the first still has its windows
C20_Witness ==
    /\ Len(yielded) = 2
    /\ DOMAIN yielded[1].windows = {1, 2}
    /\ yielded[2].composition_state = "EpochStart"
    /\ yielded[2].windows = EmptyMap

----------------------------------------------------------------------------
\* The iterator awaits a composition and the segment it is at is not one
Stray == index < Len(segments) /\ ~IsComposition(index)

\* A composition right after segment j, with only definitions of its own
\* timestamps up to an End of its own timestamps
WellFormedGroupAfter(j) ==
    \E s \in (j + 1)..(Len(segments) - 1) : \E e \in (s + 1)..(Len(segments) - 1) :
        /\ IsComposition(s)
        /\ IsEnd(e)
        /\ \A k \in (s + 1)..e : SameTimestamps(k, s)
        /\ \A k \in (s + 1)..(e - 1) : ~IsEnd(k) /\ ~IsComposition(k)

(* C21: a call of next() that finds, where it awaits a composition, a       *)
(* segment that is not one (an End, or a window, palette or object          *)
(* definition) returns None and leaves the index at that segment, so the    *)
(* iterator is at the same segment afterwards; a call of next() after one   *)
(* that returned None returns None, yields nothing and leaves the index     *)
(* where it was, whatever groups follow.                                    *)
C21_NoneIsFinal ==
    [][next =>
         /\ Stray =>
               /\ ret' = [kind |-> "None", at |-> "not_composition"]
               /\ index' = index
               /\ yielded' = yielded
               /\ Stray'
         /\ ret.kind = "None" =>
               /\ ret'.kind = "None"
               /\ index' = index
               /\ yielded' = yielded]_vars

\* A group was yielded, the call after it stopped at a stray End, and a
\* well-formed group follows that End
C21_Witness ==
    /\ Len(yielded) = 1
    /\ ret = [kind |-> "None", at |-> "not_composition"]
    /\ Stray
    /\ IsEnd(index)
    /\ WellFormedGroupAfter(index)

----------------------------------------------------------------------------
\* The End segments among the first j segments
EndsBefore(j) == Cardinality({k \in 0..(j - 1) : IsEnd(k)})

\* The calls of next() the loop of main has made: one for each DisplaySet
\* it was handed, and the one that ended it
CallsOfTheWalk == Len(yielded) + (IF ret.kind \in {"None", "panic"} THEN 1 ELSE 0)

\* No segment belongs to two yielded groups
GroupsApart(gs) == \A i, j \in DOMAIN gs : i < j => gs[i].last < gs[j].first

(* C22: a call of next() never decreases the index and never leaves it      *)
(* beyond the number of segments; a call that yields a DisplaySet starts    *)
(* at a composition and leaves the index just after the first End that      *)
(* follows it, having advanced by the number of segments of the group,      *)
(* which is at least 2; a call that does not yield ends the walk; the       *)
(* DisplaySets yielded are as many as the End segments the index has        *)
(* passed, so the walk ends with its call number (End segments + 1) at the  *)
(* latest, and the groups of two yielded DisplaySets share no segment.      *)
C22_WalkProgress ==
    [][next =>
         /\ index <= index'
         /\ index' <= Len(segments)
         /\ ret'.kind = "Some" =>
               /\ Len(yielded') = Len(yielded) + 1
               /\ IsComposition(index)
               /\ index' >= index + 2
               /\ IsEnd(index' - 1)
               /\ \A k \in index..(index' - 2) : ~IsEnd(k)
               /\ groups'[Len(groups')] = [first |-> index, last |-> index' - 1]
         /\ ret'.kind # "Some" =>
               /\ ret'.kind \in {"None", "panic"}
               /\ yielded' = yielded
         /\ Len(yielded') = EndsBefore(index')
         /\ CallsOfTheWalk' <= EndsBefore(Len(segments)) + 1
         /\ Len(groups') = Len(yielded')
         /\ GroupsApart(groups')]_vars

\* Two groups, of 2 and of 3 segments, were yielded and the third call found
\* the end of the segments: as many calls as there are End segments, and one
C22_Witness ==
    /\ Len(yielded) = 2
    /\ groups = <<[first |-> 0, last |-> 1], [first |-> 2, last |-> 4]>>
    /\ ret = [kind |-> "None", at |-> "exhausted"]
    /\ index = Len(segments)
    /\ CallsOfTheWalk = EndsBefore(Len(segments)) + 1

====
